---- MODULE Spec2Model ----
(***************************************************************************)
(* PokerBuddy: the Telegram worker of src/tg-bot-worker/src/index.ts.      *)
(*                                                                         *)
(* Every inbound update is handled by its own invocation; invocations      *)
(* share nothing but the D1 store and the chat upstream.  An invocation    *)
(* is a sequence of awaited statements, each of which is atomic; between   *)
(* two awaits any other invocation may run.  The model has one action per  *)
(* awaited statement, the synchronous code that follows a statement is     *)
(* part of that statement's action.                                        *)
(***************************************************************************)
EXTENDS Integers, Sequences, FiniteSets, TLC

(* ------------------------------------------------------------------ *)
(* Bounds of the model                                                 *)
(* ------------------------------------------------------------------ *)
Procs == {1, 2}            \* concurrent invocations
Chats == {1}               \* group chats
Users == {1, 2, 3, 4}      \* Telegram identities
MaxInvocations == 3        \* invocations of a behaviour that starts from the empty store
MaxInvocationsPending == 2 \* invocations of a behaviour that starts from InitPending

(* ------------------------------------------------------------------ *)
(* Program constants                                                   *)
(* ------------------------------------------------------------------ *)
APPROVALS_REQUIRED == 1
MAX_PENDING_ROWS_IN_KEYBOARD == 5

(* Argument texts.  A text is empty, or holds no number, or holds a     *)
(* decimal number, written here in thousandths: 50000 is "50", 125 is   *)
(* "0.125", 1 is "0.001", 0 is "0".  For these numbers the floating     *)
(* point product n * 100 (5000, 12.5, about 0.1, 0) rounds as the exact *)
(* product does, so integer arithmetic on thousandths gives Math.round. *)
EmptyText == -2
NoNumber == -1
StartTexts == {NoNumber, 0, 1, 125, 50000}
BuyInTexts == {EmptyText, NoNumber, 0, 125}

\* The users who have joined in the store InitPending.
Members == {1, 2, 3}

VARIABLES
    games,       \* table games: id -> [chat_id, status, buy_in_cents, status_message_id]
    players,     \* table players: id -> [game_id, user_id]
    buyins,      \* table buyins: id -> [game_id, user_id, amount_cents, status]
    approvals,   \* table approvals: id -> [buyin_id, approver_user_id, decision]
    msgs,        \* status messages upstream: message_id -> [game_id, live, text, reply_markup]
    inv,         \* the invocation each worker slot runs
    last,        \* the invocation that returned last: what was asked and what it answered
    budget,      \* the number of invocations that may still begin
    publishFailed, \* history: the sessions a publish attempt of which has failed
    endedSince   \* history, per chat: "updated" once an endGame has ended an active game,
                 \* "completed" once that endGame has returned, "no" again once a game is inserted

vars == <<games, players, buyins, approvals, msgs, inv, last, budget, publishFailed, endedSince>>
store == <<games, players, buyins, approvals>>

(* ------------------------------------------------------------------ *)
(* Helpers                                                             *)
(* ------------------------------------------------------------------ *)
Max(S) == CHOOSE x \in S : \A y \in S : y <= x

\* const toCents = (n) => Math.round(n * 100), n given in thousandths.
\* Math.round rounds to the nearest integer, a half towards +Infinity.
toCents(n) == (n + 5) \div 10

\* const fmtMoney = (cents) => (cents / 100).toFixed(2): units and two decimals.
fmtMoney(cents) == <<cents \div 100, cents % 100>>

\* A row of games as SELECT returns it, or NoGame for null.
NoGame == [id |-> 0, chat_id |-> 0, status |-> "none", buy_in_cents |-> 0,
           status_message_id |-> 0]

GameRow(id) == [id |-> id, chat_id |-> games[id].chat_id, status |-> games[id].status,
                buy_in_cents |-> games[id].buy_in_cents,
                status_message_id |-> games[id].status_message_id]

\* SELECT id FROM games WHERE chat_id = ? AND status = 'active'
ActiveGames(c) == {g \in DOMAIN games : games[g].chat_id = c /\ games[g].status = "active"}

\* ... WHERE chat_id=? AND status='active' ORDER BY id DESC LIMIT 1
currentGame(c) == IF ActiveGames(c) = {} THEN NoGame ELSE GameRow(Max(ActiveGames(c)))

\* SELECT ... FROM games WHERE id=?
getGameById(id) == IF id \in DOMAIN games THEN GameRow(id) ELSE NoGame

\* SELECT id FROM players WHERE game_id=? AND user_id=?
IsPlayerOfActive(g, u) ==
    /\ g \in DOMAIN games /\ games[g].status = "active"
    /\ \E i \in DOMAIN players : players[i].game_id = g /\ players[i].user_id = u
IsPlayer(g, u) == \E i \in DOMAIN players : players[i].game_id = g /\ players[i].user_id = u

\* UNIQUE (game_id, user_id) of table players: may this row be inserted?
PlayersUniqueNone(g, u) == TRUE
PlayersUnique(g, u) == ~IsPlayer(g, u)

\* UNIQUE (buyin_id, approver_user_id) of table approvals: may this row be inserted?
ApprovalsUniqueNone(b, u) == TRUE
ApprovalsUnique(b, u) ==
    ~\E i \in DOMAIN approvals : approvals[i].buyin_id = b /\ approvals[i].approver_user_id = u

\* SELECT decision, COUNT(*) FROM approvals WHERE buyin_id=? GROUP BY decision
CountDecision(b, d) ==
    Cardinality({i \in DOMAIN approvals : approvals[i].buyin_id = b /\ approvals[i].decision = d})

(* ------------------------------------------------------------------ *)
(* composeGameState: the two SELECTs of the projection                 *)
(* ------------------------------------------------------------------ *)
RECURSIVE SumAmounts(_)
SumAmounts(S) ==
    IF S = {} THEN 0
    ELSE LET i == Max(S) IN buyins[i].amount_cents + SumAmounts(S \ {i})

\* The buyins rows the LEFT JOIN pairs with a players row of (g, u).
BuyinsOfAnyStatus(g, u, st) ==
    {i \in DOMAIN buyins : buyins[i].game_id = g /\ buyins[i].user_id = u}
BuyinsOf(g, u, st) ==
    {i \in DOMAIN buyins :
        buyins[i].game_id = g /\ buyins[i].user_id = u /\ buyins[i].status = st}

PlayerRowsOf(g, u) ==
    Cardinality({i \in DOMAIN players : players[i].game_id = g /\ players[i].user_id = u})

\* SUM(CASE WHEN b.status='approved' THEN b.amount_cents ELSE 0 END), per group p.user_id
approved_cents(g, u) == PlayerRowsOf(g, u) * SumAmounts(BuyinsOf(g, u, "approved"))

\* SUM(CASE WHEN b.status='pending' THEN 1 ELSE 0 END), per group p.user_id
pending_count(g, u) == PlayerRowsOf(g, u) * Cardinality(BuyinsOf(g, u, "pending"))

PlayerRow(g, u) ==
    [user_id |-> u, approved_cents |-> approved_cents(g, u),
     pending_count |-> pending_count(g, u)]

\* ORDER BY approved_cents DESC, username (a user's handle is its identity here).
RECURSIVE OrderPlayers(_, _)
OrderPlayers(g, S) ==
    IF S = {} THEN <<>>
    ELSE LET first == CHOOSE u \in S : \A v \in S :
                          \/ approved_cents(g, u) > approved_cents(g, v)
                          \/ approved_cents(g, u) = approved_cents(g, v) /\ u <= v
         IN  <<PlayerRow(g, first)>> \o OrderPlayers(g, S \ {first})

\* First SELECT of composeGameState: ... FROM players p LEFT JOIN buyins b ...
\* WHERE p.game_id=? GROUP BY p.user_id ORDER BY approved_cents DESC, username
playersData(g) == OrderPlayers(g, {u \in Users : IsPlayer(g, u)})

PendingRow(i) ==
    [id |-> i, user_id |-> buyins[i].user_id, amount_cents |-> buyins[i].amount_cents,
     approvals |-> CountDecision(i, "approve"), rejects |-> CountDecision(i, "reject")]

RECURSIVE OrderPending(_)
OrderPending(S) ==
    IF S = {} THEN <<>>
    ELSE LET hi == Max(S) IN OrderPending(S \ {hi}) \o <<PendingRow(hi)>>

\* Second SELECT of composeGameState: ... FROM buyins b LEFT JOIN approvals a ...
\* WHERE b.game_id=? AND b.status='pending' GROUP BY b.id ORDER BY b.id ASC
pendingData(g) ==
    OrderPending({i \in DOMAIN buyins : buyins[i].game_id = g /\ buyins[i].status = "pending"})

(* ------------------------------------------------------------------ *)
(* Rendering                                                           *)
(* ------------------------------------------------------------------ *)
\* buildStatusText: the lines of the status text, kept apart.
buildStatusText(game, state) ==
    [header  |-> IF game.status = "ended" THEN "Game ended" ELSE "Poker Night",
     buy_in  |-> fmtMoney(game.buy_in_cents),
     players |-> [k \in DOMAIN state.players |->
                    [label   |-> state.players[k].user_id,
                     money   |-> fmtMoney(state.players[k].approved_cents),
                     pending |-> state.players[k].pending_count]],
     pending |-> [k \in DOMAIN state.pending |->
                    [id        |-> state.pending[k].id,
                     label     |-> state.pending[k].user_id,
                     money     |-> fmtMoney(state.pending[k].amount_cents),
                     approvals |-> state.pending[k].approvals]],
     footer  |-> game.status = "ended"]

\* The keyboard drawn for a game row of this status?
KeyboardShown(status) == status = "active"

\* buildStatusKeyboard: undefined (no controls) unless the game is active; otherwise the
\* four fixed controls and an approve/reject pair per pending row, at most
\* MAX_PENDING_ROWS_IN_KEYBOARD of them.
buildStatusKeyboard(game, state) ==
    IF ~KeyboardShown(game.status)
    THEN [controls |-> FALSE, rows |-> <<>>]
    ELSE LET n == IF Len(state.pending) < MAX_PENDING_ROWS_IN_KEYBOARD
                  THEN Len(state.pending) ELSE MAX_PENDING_ROWS_IN_KEYBOARD
         IN  [controls |-> TRUE,
              rows |-> [k \in 1..n |->
                          [id        |-> state.pending[k].id,
                           approvals |-> state.pending[k].approvals,
                           rejects   |-> state.pending[k].rejects]]]

\* The payload refreshGameMessage sends for a game row and a composed state.
Payload(game, state) ==
    [text |-> buildStatusText(game, state), reply_markup |-> buildStatusKeyboard(game, state)]

\* The payload of game g as the store has it now: both SELECTs and the game row read at once.
Projection(g) == Payload(GameRow(g), [players |-> playersData(g), pending |-> pendingData(g)])

NoPayload == Payload(NoGame, [players |-> <<>>, pending |-> <<>>])

(* ------------------------------------------------------------------ *)
(* Invocations                                                         *)
(* ------------------------------------------------------------------ *)
NoBuyin == [id |-> 0, game_id |-> 0, user_id |-> 0]
NoResult == [ok |-> FALSE, err |-> "none", published |-> FALSE, changed |-> FALSE]

\* The frame of a worker slot that runs nothing.
IdleFrame ==
    [pc |-> "idle", op |-> "none", chat |-> 0, user |-> 0, buyinId |-> 0,
     decision |-> "none", text |-> EmptyText, cents |-> 0, game |-> NoGame,
     buyin |-> NoBuyin, decided |-> "none",
     players |-> <<>>, payload |-> NoPayload, allowCreate |-> TRUE,
     message_id |-> 0, statusChanged |-> FALSE, rowId |-> 0]

\* Slot p is free and another update may arrive.
Free(p) == inv[p].pc = "idle" /\ budget > 0

\* A new invocation: the handler is called with chat c and sender u.
Begin(op, c, u) == [IdleFrame EXCEPT !.op = op, !.chat = c, !.user = u]

\* What is seen of an invocation that returned r: the intent, its arguments (the text
\* as far as the invocation still held it), the row it wrote (0 when it wrote none) and
\* the result.
Returned(f, r) ==
    [op |-> f.op, chat |-> f.chat, user |-> f.user, buyinId |-> f.buyinId,
     text |-> f.text, rowId |-> f.rowId, res |-> r]

Fail(e) == [ok |-> FALSE, err |-> e, published |-> FALSE, changed |-> FALSE]

\* The store of a fresh deployment: the migrations have run, the tables are empty.
InitEmpty ==
    /\ games = <<>>
    /\ players = <<>>
    /\ buyins = <<>>
    /\ approvals = <<>>
    /\ msgs = <<>>
    /\ budget = MaxInvocations

\* The store after the updates "/startgame 50", "/joingame" of each user of Members and
\* a "/buyin" of user 1, handled one after the other with every publish succeeding: game 1
\* is active, its status message 1 shows the three players and the pending buy-in.
InitPending ==
    /\ games = <<[chat_id |-> 1, status |-> "active", buy_in_cents |-> toCents(50000),
                  status_message_id |-> 1]>>
    /\ players = [u \in Members |-> [game_id |-> 1, user_id |-> u]]
    /\ buyins = <<[game_id |-> 1, user_id |-> 1, amount_cents |-> toCents(50000),
                   status |-> "pending"]>>
    /\ approvals = <<>>
    /\ msgs = <<[game_id |-> 1, live |-> TRUE,
                 text |-> Projection(1).text, reply_markup |-> Projection(1).reply_markup]>>
    /\ budget = MaxInvocationsPending

Init ==
    /\ InitEmpty \/ InitPending
    /\ inv = [p \in Procs |-> IdleFrame]
    /\ last = Returned(IdleFrame, NoResult)
    /\ publishFailed = {}
    /\ endedSince = [c \in Chats |-> "no"]

\* What the handler returns once refreshGameMessage has returned pub: every command
\* returns { ok: true } whatever pub is; the refresh intent returns pub itself.
OutcomeFailsUnpublished(f, pub) ==
    [ok |-> pub, err |-> IF pub THEN "none" ELSE "TransportError",
     published |-> pub, changed |-> f.statusChanged]
Outcome(f, pub) ==
    [ok |-> IF f.op = "refresh" THEN pub ELSE TRUE, err |-> "none",
     published |-> pub, changed |-> f.statusChanged]

\* An exception nobody catches leaves the handler.
Thrown(f) == Fail("StoreError")

\* catch (err) { console.log("Failed to send status message.", err) } ... return false
sendMessageThrows(f) == Thrown(f)
sendMessageFailed(f) == Outcome(f, FALSE)

\* The invocation of slot p, in frame f, returns r.
Finish(p, f, r) ==
    /\ inv' = [inv EXCEPT ![p] = IdleFrame]
    /\ last' = Returned(f, r)
    /\ endedSince' = IF f.op = "endGame" /\ r.ok /\ endedSince[f.chat] = "updated"
                     THEN [endedSince EXCEPT ![f.chat] = "completed"] ELSE endedSince

\* The invocation of slot p goes on in frame f.
Goto(p, f) == inv' = [inv EXCEPT ![p] = f] /\ UNCHANGED <<last, endedSince>>

(* ------------------------------------------------------------------ *)
(* startGame                                                           *)
(* ------------------------------------------------------------------ *)
\* SELECT id FROM games WHERE chat_id = ? AND status = 'active', then the argument checks.
startGame_existing(p) ==
    /\ Free(p)
    /\ budget' = budget - 1
    /\ \E c \in Chats, t \in StartTexts :
         LET f == Begin("startGame", c, 0) IN
         IF ActiveGames(c) # {}
         THEN Finish(p, f, Fail("ConflictError"))
         ELSE IF t \in {EmptyText, NoNumber} \/ ~(t > 0)
         THEN Finish(p, f, Fail("ValidationError"))
         ELSE Goto(p, [f EXCEPT !.pc = "startGame_insert", !.text = t, !.cents = toCents(t)])
    /\ UNCHANGED <<store, msgs, publishFailed>>

\* INSERT INTO games (chat_id, started_at, status, buy_in_cents) VALUES (?, ?, 'active', ?)
startGame_insert(p) ==
    /\ inv[p].pc = "startGame_insert"
    /\ games' = Append(games, [chat_id |-> inv[p].chat, status |-> "active",
                               buy_in_cents |-> inv[p].cents, status_message_id |-> 0])
    /\ inv' = [inv EXCEPT ![p] = [@ EXCEPT !.pc = "startGame_getGameById",
                                           !.text = EmptyText, !.rowId = Len(games) + 1]]
    /\ endedSince' = [endedSince EXCEPT ![inv[p].chat] = "no"]
    /\ last' = last
    /\ UNCHANGED <<players, buyins, approvals, msgs, publishFailed>>
    /\ UNCHANGED budget

\* const game = await getGameById(...); if (game) await refreshGameMessage(env, chatId, game)
startGame_getGameById(p) ==
    /\ inv[p].pc = "startGame_getGameById"
    /\ LET game == getGameById(inv[p].rowId) IN
       IF game = NoGame
       THEN Finish(p, inv[p], Outcome(inv[p], FALSE))
       ELSE Goto(p, [inv[p] EXCEPT !.pc = "composeGameState_players", !.game = game])
    /\ UNCHANGED <<store, msgs, publishFailed>>
    /\ UNCHANGED budget

(* ------------------------------------------------------------------ *)
(* joinGame                                                            *)
(* ------------------------------------------------------------------ *)
joinGame_currentGame(p) ==
    /\ Free(p)
    /\ budget' = budget - 1
    /\ \E c \in Chats, u \in Users :
         LET f == Begin("joinGame", c, u)
             game == currentGame(c) IN
         IF game = NoGame
         THEN Finish(p, f, Fail("NotFoundError"))
         ELSE Goto(p, [f EXCEPT !.pc = "joinGame_existing", !.game = game])
    /\ UNCHANGED <<store, msgs, publishFailed>>

\* SELECT id FROM players WHERE game_id=? AND user_id=?
joinGame_existing(p) ==
    /\ inv[p].pc = "joinGame_existing"
    /\ IF IsPlayer(inv[p].game.id, inv[p].user)
       THEN Finish(p, inv[p], Fail("AlreadyMemberError"))
       ELSE Goto(p, [inv[p] EXCEPT !.pc = "joinGame_insert"])
    /\ UNCHANGED <<store, msgs, publishFailed>>
    /\ UNCHANGED budget

\* INSERT INTO players ...: the UNIQUE constraint makes run() throw, and joinGame has no catch.
joinGame_insert(p) ==
    /\ inv[p].pc = "joinGame_insert"
    /\ IF PlayersUnique(inv[p].game.id, inv[p].user)
       THEN /\ players' = Append(players, [game_id |-> inv[p].game.id, user_id |-> inv[p].user])
            /\ Goto(p, [inv[p] EXCEPT !.pc = "composeGameState_players",
                                      !.rowId = Len(players) + 1])
       ELSE /\ players' = players
            /\ Finish(p, inv[p], Thrown(inv[p]))
    /\ UNCHANGED <<games, buyins, approvals, msgs, publishFailed>>
    /\ UNCHANGED budget

(* ------------------------------------------------------------------ *)
(* buyIn                                                               *)
(* ------------------------------------------------------------------ *)
buyIn_currentGame(p) ==
    /\ Free(p)
    /\ budget' = budget - 1
    /\ \E c \in Chats, u \in Users, t \in BuyInTexts :
         LET f == [Begin("buyIn", c, u) EXCEPT !.text = t]
             game == currentGame(c) IN
         IF game = NoGame
         THEN Finish(p, f, Fail("NotFoundError"))
         ELSE Goto(p, [f EXCEPT !.pc = "buyIn_isPlayer", !.game = game])
    /\ UNCHANGED <<store, msgs, publishFailed>>

\* The amount buyIn resolves from its argument text and the game row it read.
buyInCentsFlat(text, game) ==
    IF text # EmptyText
    THEN IF text = NoNumber \/ ~(text > 0) THEN -1 ELSE toCents(text)
    ELSE 1
buyInCents(text, game) ==
    IF text # EmptyText
    THEN IF text = NoNumber \/ ~(text > 0) THEN -1 ELSE toCents(text)
    ELSE game.buy_in_cents

\* SELECT id FROM players ..., then the amount is resolved and checked.
buyIn_isPlayer(p) ==
    /\ inv[p].pc = "buyIn_isPlayer"
    /\ LET cents == buyInCents(inv[p].text, inv[p].game) IN
       IF ~IsPlayer(inv[p].game.id, inv[p].user)
       THEN Finish(p, inv[p], Fail("NotMemberError"))
       ELSE IF ~(cents > 0)
       THEN Finish(p, inv[p], Fail("ValidationError"))
       ELSE Goto(p, [inv[p] EXCEPT !.pc = "buyIn_insert", !.cents = cents])
    /\ UNCHANGED <<store, msgs, publishFailed>>
    /\ UNCHANGED budget

\* INSERT INTO buyins (game_id, user_id, amount_cents, created_at, status) VALUES (..., 'pending')
buyIn_insert(p) ==
    /\ inv[p].pc = "buyIn_insert"
    /\ buyins' = Append(buyins, [game_id |-> inv[p].game.id, user_id |-> inv[p].user,
                                 amount_cents |-> inv[p].cents, status |-> "pending"])
    /\ Goto(p, [inv[p] EXCEPT !.pc = "composeGameState_players", !.text = EmptyText,
                              !.rowId = Len(buyins) + 1])
    /\ UNCHANGED <<games, players, approvals, msgs, publishFailed>>
    /\ UNCHANGED budget

(* ------------------------------------------------------------------ *)
(* processApproval                                                     *)
(* ------------------------------------------------------------------ *)
\* String(buyin.user_id) === String(approver.id)
IsSelfVoteNever(buyin, u) == FALSE
IsSelfVote(buyin, u) == buyin.user_id = u

\* SELECT b.id, b.game_id, b.user_id, b.status FROM buyins b WHERE b.id=?, then the
\* checks on the row: not found, already resolved, own buy-in.
processApproval_buyin(p) ==
    /\ Free(p)
    /\ budget' = budget - 1
    /\ \E c \in Chats, b \in 0..(Len(buyins) + 1), u \in Users, d \in {"approve", "reject"} :
         LET f == [Begin("processApproval", c, u) EXCEPT !.buyinId = b, !.decision = d] IN
         IF b = 0 \/ b \notin DOMAIN buyins
         THEN Finish(p, f, Fail("NotFoundError"))
         ELSE IF buyins[b].status # "pending"
         THEN Finish(p, f, Fail("AlreadyResolvedError"))
         ELSE IF IsSelfVote(buyins[b], u)
         THEN Finish(p, f, Fail("SelfVoteError"))
         ELSE Goto(p, [f EXCEPT !.pc = "processApproval_player",
                                  !.buyin = [id |-> b, game_id |-> buyins[b].game_id,
                                             user_id |-> buyins[b].user_id]])
    /\ UNCHANGED <<store, msgs, publishFailed>>

\* SELECT id FROM players WHERE game_id=? AND user_id=?  (the approver must be a player)
processApproval_player(p) ==
    /\ inv[p].pc = "processApproval_player"
    /\ IF ~IsPlayer(inv[p].buyin.game_id, inv[p].user)
       THEN Finish(p, inv[p], Fail("NotMemberError"))
       ELSE Goto(p, [inv[p] EXCEPT !.pc = "processApproval_insert"])
    /\ UNCHANGED <<store, msgs, publishFailed>>
    /\ UNCHANGED budget

\* try { INSERT INTO approvals ... } catch (_) { /* duplicate vote */ }
processApproval_insert(p) ==
    /\ inv[p].pc = "processApproval_insert"
    /\ IF ApprovalsUnique(inv[p].buyinId, inv[p].user)
       THEN /\ approvals' = Append(approvals, [buyin_id |-> inv[p].buyinId,
                                               approver_user_id |-> inv[p].user,
                                               decision |-> inv[p].decision])
            /\ Goto(p, [inv[p] EXCEPT !.pc = "processApproval_counts",
                                      !.rowId = Len(approvals) + 1])
       ELSE /\ approvals' = approvals
            /\ Goto(p, [inv[p] EXCEPT !.pc = "processApproval_counts"])
    /\ UNCHANGED <<games, players, buyins, msgs, publishFailed>>
    /\ UNCHANGED budget

\* The status the tally asks for: approved first, then rejected, else none.
DecideApproves(a, r) ==
    IF a >= APPROVALS_REQUIRED \/ r >= APPROVALS_REQUIRED THEN "approved" ELSE "none"
DecideAbove(a, r) ==
    IF a > APPROVALS_REQUIRED THEN "approved"
    ELSE IF r > APPROVALS_REQUIRED THEN "rejected" ELSE "none"
Decide(a, r) ==
    IF a >= APPROVALS_REQUIRED THEN "approved"
    ELSE IF r >= APPROVALS_REQUIRED THEN "rejected" ELSE "none"

\* SELECT decision, COUNT(*) as c FROM approvals WHERE buyin_id=? GROUP BY decision
processApproval_counts(p) ==
    /\ inv[p].pc = "processApproval_counts"
    /\ LET decided == Decide(CountDecision(inv[p].buyinId, "approve"),
                             CountDecision(inv[p].buyinId, "reject")) IN
       IF decided = "none"
       THEN Goto(p, [inv[p] EXCEPT !.pc = "processApproval_getGameById"])
       ELSE Goto(p, [inv[p] EXCEPT !.pc = "processApproval_update", !.decided = decided])
    /\ UNCHANGED <<store, msgs, publishFailed>>
    /\ UNCHANGED budget

\* UPDATE buyins SET status='approved' | 'rejected' WHERE id=?   (no condition on the status)
processApproval_update(p) ==
    /\ inv[p].pc = "processApproval_update"
    /\ buyins' = [buyins EXCEPT ![inv[p].buyinId].status = inv[p].decided]
    /\ Goto(p, [inv[p] EXCEPT !.pc = "processApproval_getGameById", !.statusChanged = TRUE])
    /\ UNCHANGED <<games, players, approvals, msgs, publishFailed>>
    /\ UNCHANGED budget

\* const game = await getGameById(env, buyin.game_id); refreshGameMessage(..., game), or
\* refreshGameMessage(env, chatId), which reads currentGame, when there is no such row.
processApproval_getGameById(p) ==
    /\ inv[p].pc = "processApproval_getGameById"
    /\ LET byId == getGameById(inv[p].buyin.game_id)
           game == IF byId # NoGame THEN byId ELSE currentGame(inv[p].chat) IN
       IF game = NoGame
       THEN Finish(p, inv[p], Outcome(inv[p], FALSE))
       ELSE Goto(p, [inv[p] EXCEPT !.pc = "composeGameState_players", !.game = game])
    /\ UNCHANGED <<store, msgs, publishFailed>>
    /\ UNCHANGED budget

(* ------------------------------------------------------------------ *)
(* endGame                                                             *)
(* ------------------------------------------------------------------ *)
endGame_currentGame(p) ==
    /\ Free(p)
    /\ budget' = budget - 1
    /\ \E c \in Chats :
         LET f == Begin("endGame", c, 0)
             game == currentGame(c) IN
         IF game = NoGame
         THEN Finish(p, f, Fail("NotFoundError"))
         ELSE Goto(p, [f EXCEPT !.pc = "endGame_update", !.game = game])
    /\ UNCHANGED <<store, msgs, publishFailed>>

\* UPDATE games SET status='ended', ended_at=? WHERE id=?
endGame_update(p) ==
    /\ inv[p].pc = "endGame_update"
    /\ games' = [games EXCEPT ![inv[p].game.id].status = "ended"]
    /\ inv' = [inv EXCEPT ![p] = [@ EXCEPT !.pc = "endGame_getGameById",
                                           !.rowId = inv[p].game.id]]
    /\ endedSince' = IF games[inv[p].game.id].status = "active"
                     THEN [endedSince EXCEPT ![inv[p].chat] = "updated"] ELSE endedSince
    /\ last' = last
    /\ UNCHANGED <<players, buyins, approvals, msgs, publishFailed>>
    /\ UNCHANGED budget

\* const updated = await getGameById(env, game.id); if (updated) refreshGameMessage(...)
endGame_getGameById(p) ==
    /\ inv[p].pc = "endGame_getGameById"
    /\ LET updated == getGameById(inv[p].game.id) IN
       IF updated = NoGame
       THEN Finish(p, inv[p], Outcome(inv[p], FALSE))
       ELSE Goto(p, [inv[p] EXCEPT !.pc = "composeGameState_players", !.game = updated])
    /\ UNCHANGED <<store, msgs, publishFailed>>
    /\ UNCHANGED budget

(* ------------------------------------------------------------------ *)
(* refreshGameMessage                                                  *)
(* ------------------------------------------------------------------ *)
\* The refresh intent (/status, the Refresh button): refreshGameMessage(env, chatId,
\* undefined, false), which reads currentGame itself.
refreshGameMessage_currentGame(p) ==
    /\ Free(p)
    /\ budget' = budget - 1
    /\ \E c \in Chats :
         LET f == [Begin("refresh", c, 0) EXCEPT !.allowCreate = FALSE]
             game == currentGame(c) IN
         IF game = NoGame
         THEN Finish(p, f, Outcome(f, FALSE))
         ELSE Goto(p, [f EXCEPT !.pc = "composeGameState_players", !.game = game])
    /\ UNCHANGED <<store, msgs, publishFailed>>

\* composeGameState, first SELECT.
composeGameState_players(p) ==
    /\ inv[p].pc = "composeGameState_players"
    /\ Goto(p, [inv[p] EXCEPT !.pc = "composeGameState_pending",
                              !.players = playersData(inv[p].game.id)])
    /\ UNCHANGED <<store, msgs, publishFailed>>
    /\ UNCHANGED budget

\* composeGameState, second SELECT; then the text and the keyboard are built from the
\* game row the caller holds, and the way to publish is chosen.
composeGameState_pending(p) ==
    /\ inv[p].pc = "composeGameState_pending"
    /\ LET state == [players |-> inv[p].players, pending |-> pendingData(inv[p].game.id)]
           f == [inv[p] EXCEPT !.players = <<>>, !.payload = Payload(inv[p].game, state)] IN
       IF inv[p].game.status_message_id # 0
       THEN Goto(p, [f EXCEPT !.pc = "refreshGameMessage_editMessageText"])
       ELSE IF ~inv[p].allowCreate
       THEN Finish(p, inv[p], Outcome(inv[p], FALSE))
       ELSE Goto(p, [f EXCEPT !.pc = "refreshGameMessage_sendMessage"])
    /\ UNCHANGED <<store, msgs, publishFailed>>
    /\ UNCHANGED budget

\* callTelegram(env, "editMessageText", ...): the upstream edits the message, or answers
\* an error (the message is gone, or the call fails for any other reason).
refreshGameMessage_editMessageText(p) ==
    /\ inv[p].pc = "refreshGameMessage_editMessageText"
    /\ LET m == inv[p].game.status_message_id IN
       \/ /\ m \in DOMAIN msgs /\ msgs[m].live
          /\ msgs' = [msgs EXCEPT ![m].text = inv[p].payload.text,
                                  ![m].reply_markup = inv[p].payload.reply_markup]
          /\ Finish(p, inv[p], Outcome(inv[p], TRUE))
          /\ UNCHANGED publishFailed
       \/ /\ publishFailed' = publishFailed \cup {inv[p].game.id}
          /\ msgs' = msgs
          /\ IF ~inv[p].allowCreate
             THEN Finish(p, inv[p], Outcome(inv[p], FALSE))
             ELSE Goto(p, [inv[p] EXCEPT !.pc = "refreshGameMessage_sendMessage"])
    /\ UNCHANGED store
    /\ UNCHANGED budget

\* callTelegram(env, "sendMessage", payload): a new message, or an error that is caught.
refreshGameMessage_sendMessage(p) ==
    /\ inv[p].pc = "refreshGameMessage_sendMessage"
    /\ \/ /\ msgs' = Append(msgs, [game_id |-> inv[p].game.id, live |-> TRUE,
                                   text |-> inv[p].payload.text,
                                   reply_markup |-> inv[p].payload.reply_markup])
          /\ Goto(p, [inv[p] EXCEPT !.pc = "refreshGameMessage_update",
                                    !.message_id = Len(msgs) + 1])
          /\ UNCHANGED publishFailed
       \/ /\ publishFailed' = publishFailed \cup {inv[p].game.id}
          /\ msgs' = msgs
          /\ Finish(p, inv[p], sendMessageFailed(inv[p]))
    /\ UNCHANGED store
    /\ UNCHANGED budget

\* UPDATE games SET status_message_id=? WHERE id=?
refreshGameMessage_update(p) ==
    /\ inv[p].pc = "refreshGameMessage_update"
    /\ games' = [games EXCEPT ![inv[p].game.id].status_message_id = inv[p].message_id]
    /\ Finish(p, inv[p], Outcome(inv[p], TRUE))
    /\ UNCHANGED <<players, buyins, approvals, msgs, publishFailed>>
    /\ UNCHANGED budget

(* ------------------------------------------------------------------ *)
(* The chat upstream                                                   *)
(* ------------------------------------------------------------------ *)
\* Somebody deletes a status message in the chat.
UpstreamDelete ==
    /\ \E m \in DOMAIN msgs :
         /\ msgs[m].live
         /\ msgs' = [msgs EXCEPT ![m].live = FALSE]
    /\ UNCHANGED <<store, inv, last, publishFailed, endedSince>>
    /\ UNCHANGED budget

Next ==
    \/ \E p \in Procs :
         \/ startGame_existing(p) \/ startGame_insert(p) \/ startGame_getGameById(p)
         \/ joinGame_currentGame(p) \/ joinGame_existing(p) \/ joinGame_insert(p)
         \/ buyIn_currentGame(p) \/ buyIn_isPlayer(p) \/ buyIn_insert(p)
         \/ processApproval_buyin(p) \/ processApproval_player(p)
         \/ processApproval_insert(p) \/ processApproval_counts(p)
         \/ processApproval_update(p) \/ processApproval_getGameById(p)
         \/ endGame_currentGame(p) \/ endGame_update(p) \/ endGame_getGameById(p)
         \/ refreshGameMessage_currentGame(p)
         \/ composeGameState_players(p) \/ composeGameState_pending(p)
         \/ refreshGameMessage_editMessageText(p) \/ refreshGameMessage_sendMessage(p)
         \/ refreshGameMessage_update(p)
    \/ UpstreamDelete

Spec == Init /\ [][Next]_vars

\* The worker when updates arrive one at a time: an update arrives only when no invocation
\* is in flight, so every invocation runs in isolation.
Sequential == budget' < budget => \A p \in Procs : inv[p].pc = "idle"
NextSeq == Next /\ Sequential
SpecSeq == Init /\ [][NextSeq]_vars

(* ------------------------------------------------------------------ *)
(* Properties                                                          *)
(* ------------------------------------------------------------------ *)
Commands == {"startGame", "joinGame", "buyIn", "processApproval", "endGame"}

Quiescent == \A p \in Procs : inv[p].pc = "idle"

\* Slot p returns in this step.
Returns(p) == inv[p].pc # "idle" /\ inv'[p].pc = "idle"

VoteRows(b, u) ==
    {i \in DOMAIN approvals : approvals[i].buyin_id = b /\ approvals[i].approver_user_id = u}

\* C1: every chat has at most one active session, also when start-session invocations
\* for the chat interleave (of two concurrent ones only one inserts a session).
C1_OneActiveSessionPerChat == \A c \in Chats : Cardinality(ActiveGames(c)) <= 1

\* C2: the status of a buy-in request changes at most once: a request that is approved
\* or rejected keeps that status in every later state.
C2_StatusChangesOnce ==
    [][\A b \in DOMAIN buyins :
          buyins[b].status # "pending" => buyins'[b].status = buyins[b].status]_vars

\* C3: there is at most one vote row per (request, voter); rows, once stored, are never
\* changed or removed; and a vote attempt of a voter who already has a row for the
\* request, with whatever decision, leaves the votes, hence the tally, as they are.
C3_FirstVoteWins ==
    [][/\ \A b \in DOMAIN buyins', u \in Users :
             Cardinality({i \in DOMAIN approvals' :
                            /\ approvals'[i].buyin_id = b
                            /\ approvals'[i].approver_user_id = u}) <= 1
       /\ \A i \in DOMAIN approvals : i \in DOMAIN approvals' /\ approvals'[i] = approvals[i]
       /\ \A p \in Procs :
             /\ inv[p].pc = "processApproval_insert"
             /\ inv'[p].pc = "processApproval_counts"
             /\ VoteRows(inv[p].buyinId, inv[p].user) # {}
             => approvals' = approvals]_vars

\* C3, witness: a second attempt, with the other decision, of a voter whose vote is
\* stored has gone through the insert statement.
C3_Witness ==
    \E p \in Procs :
       /\ inv[p].pc = "processApproval_counts"
       /\ inv[p].rowId = 0
       /\ \E i \in VoteRows(inv[p].buyinId, inv[p].user) :
             approvals[i].decision # inv[p].decision

\* The invocation that returned last was a vote of the requester on a request that
\* existed when the vote was handled (rows of buyins are never removed nor re-owned).
LastIsSelfVote ==
    /\ last.op = "processApproval"
    /\ last.res.err # "NotFoundError"
    /\ last.buyinId \in DOMAIN buyins
    /\ buyins[last.buyinId].user_id = last.user

NoSelfVoteRow ==
    \A i \in DOMAIN approvals :
       approvals[i].approver_user_id # buyins[approvals[i].buyin_id].user_id

\* C4, as claimed: a vote of the requester on the own request always fails with
\* SelfVoteError, and no vote row ever has the requester as its voter.
C4_SelfVoteError ==
    /\ LastIsSelfVote => ~last.res.ok /\ last.res.err = "SelfVoteError"
    /\ NoSelfVoteRow

\* C4, amended: a vote of the requester on the own request always fails and stores
\* nothing: with SelfVoteError, or with AlreadyResolvedError when the request was resolved
\* already; and no vote row ever has the requester as its voter.
C4_SelfVoteRejected ==
    /\ LastIsSelfVote =>
          /\ ~last.res.ok
          /\ last.rowId = 0
          /\ last.res.err \in {"SelfVoteError", "AlreadyResolvedError"}
          /\ last.res.err = "AlreadyResolvedError" => buyins[last.buyinId].status # "pending"
    /\ NoSelfVoteRow

\* C4, witness: a requester has voted on the own pending request and got SelfVoteError.
C4_Witness ==
    /\ LastIsSelfVote
    /\ last.res.err = "SelfVoteError"
    /\ buyins[last.buyinId].status = "pending"

\* C5: of the vote invocations that reach the threshold for a request only one applies
\* the status write and reports a transition: every status write that is reported as a
\* transition finds the request pending; and the voter has one vote row.
C5_OneTransitionWins ==
    [][/\ \A p \in Procs :
             /\ inv[p].pc = "processApproval_update"
             /\ inv'[p].pc = "processApproval_getGameById"
             => buyins[inv[p].buyinId].status = "pending"
       /\ \A b \in DOMAIN buyins, u \in Users : Cardinality(VoteRows(b, u)) <= 1]_vars

\* The status messages of game g that are live upstream; one that was created in this
\* moment and whose identifier its creator is about to store is not counted yet.
LiveArtifacts(g) ==
    {m \in DOMAIN msgs :
        /\ msgs[m].game_id = g
        /\ msgs[m].live
        /\ ~\E p \in Procs : inv[p].pc = "refreshGameMessage_update" /\ inv[p].message_id = m}

\* C6: at most one status message of a session is live upstream, and a live one is the
\* message the session's status_message_id refers to.
C6_OneLiveArtifact ==
    \A g \in DOMAIN games :
       /\ Cardinality(LiveArtifacts(g)) <= 1
       /\ \A m \in LiveArtifacts(g) : games[g].status_message_id = m

\* C7: when no invocation is in flight, no publish attempt of the session has failed and
\* the invocation that returned last was a command, the session's status message shows
\* the rendering of the current store.
C7_ArtifactShowsProjection ==
    \A g \in DOMAIN games :
       /\ Quiescent
       /\ g \notin publishFailed
       /\ games[g].status_message_id # 0
       /\ last.op \in Commands
       => LET m == msgs[games[g].status_message_id] IN
          /\ m.text = Projection(g).text
          /\ m.reply_markup = Projection(g).reply_markup

\* What a command has written is in the store.
MutationKept(f) ==
    CASE f.op = "startGame" ->
           f.rowId \in DOMAIN games /\ games[f.rowId].chat_id = f.chat
      [] f.op = "joinGame" ->
           f.rowId \in DOMAIN players
           /\ players[f.rowId] = [game_id |-> f.game.id, user_id |-> f.user]
      [] f.op = "buyIn" ->
           f.rowId \in DOMAIN buyins
           /\ buyins[f.rowId].game_id = f.game.id /\ buyins[f.rowId].user_id = f.user
      [] f.op = "processApproval" ->
           VoteRows(f.buyinId, f.user) # {}
           /\ (f.statusChanged => buyins[f.buyinId].status # "pending")
      [] f.op = "endGame" ->
           f.rowId \in DOMAIN games /\ games[f.rowId].status = "ended"
      [] OTHER -> FALSE

\* C8: a command whose publish fails (the edit, if any, and the create have failed) still
\* returns ok, and what it wrote stays in the store.
C8_PublishFailureNotFatal ==
    [][\A p \in Procs :
          inv[p].pc = "refreshGameMessage_sendMessage" /\ Returns(p)
          => /\ last'.op = inv[p].op
             /\ last'.res.ok
             /\ ~last'.res.published
             /\ MutationKept(inv[p])
             /\ store' = store]_vars

\* C8, witness: a command has returned ok although its publish failed.
C8_Witness ==
    /\ last.op \in Commands
    /\ last.res.ok
    /\ ~last.res.published
    /\ publishFailed # {}

\* C9: once end-session has completed for a chat its session is ended, and until a new
\* session is inserted the chat has no active session, so that every join and every
\* request-buy-in begun now answers NotFoundError and inserts nothing.
C9_EndedChatHasNoSession ==
    /\ last.op = "endGame" /\ last.res.ok => games[last.rowId].status = "ended"
    /\ \A c \in Chats : endedSince[c] = "completed" => currentGame(c) = NoGame

\* Slot p publishes in this step: its edit or its create succeeds.
Publishes(p) ==
    \/ inv[p].pc = "refreshGameMessage_editMessageText" /\ Returns(p) /\ last'.res.published
    \/ inv[p].pc = "refreshGameMessage_sendMessage" /\ Len(msgs') > Len(msgs)

\* C10: every publish a command makes for a session whose status is ended in the store
\* shows the ended header and no controls.
C10_EndedSessionRendersEnded ==
    [][\A p \in Procs :
          Publishes(p) /\ inv[p].op \in Commands /\ games[inv[p].game.id].status = "ended"
          => /\ inv[p].payload.text.header = "Game ended"
             /\ ~inv[p].payload.reply_markup.controls]_vars

\* An invocation returns in this step: a slot goes back to idle, or an invocation begins
\* and returns in its first statement.
ReturnsNow == (\E p \in Procs : Returns(p)) \/ (budget' < budget /\ inv' = inv)

\* C11: an invocation of a command that returns an error has written nothing: the step in
\* which it returns leaves the four tables as they are, and it has inserted no row and
\* changed no status before; after a vote that fails for non-membership the voter has no
\* vote row for the request, so its one vote is still to cast.
C11_ErrorLeavesStore ==
    [][ReturnsNow /\ last'.op \in Commands /\ ~last'.res.ok
       => /\ store' = store
          /\ last'.rowId = 0
          /\ ~last'.res.changed
          /\ last'.op = "processApproval" /\ last'.res.err = "NotMemberError"
             => ~\E i \in DOMAIN approvals' :
                     /\ approvals'[i].buyin_id = last'.buyinId
                     /\ approvals'[i].approver_user_id = last'.user]_vars

\* C11, witness: a vote of a user who has not joined has failed with NotMemberError, the
\* request is pending and holds no vote of that user.
C11_Witness ==
    /\ last.op = "processApproval"
    /\ last.res.err = "NotMemberError"
    /\ last.buyinId \in DOMAIN buyins
    /\ buyins[last.buyinId].status = "pending"
    /\ ~IsPlayer(buyins[last.buyinId].game_id, last.user)
    /\ VoteRows(last.buyinId, last.user) = {}

\* C12: there is at most one players row per (game, user); no step changes or removes a
\* players row; and a join of a user who has a row for the game it read (rows are never
\* removed, so a row present when the join began is present at its membership SELECT)
\* returns AlreadyMemberError and leaves the roster as it is.
C12_OneRowPerMember ==
    [][/\ \A g \in DOMAIN games', u \in Users :
             Cardinality({i \in DOMAIN players' :
                            players'[i].game_id = g /\ players'[i].user_id = u}) <= 1
       /\ \A i \in DOMAIN players : i \in DOMAIN players' /\ players'[i] = players[i]
       /\ \A p \in Procs :
             /\ inv[p].pc = "joinGame_existing"
             /\ inv'[p].pc # "joinGame_existing"
             /\ IsPlayer(inv[p].game.id, inv[p].user)
             => /\ Returns(p)
                /\ last'.op = "joinGame"
                /\ ~last'.res.ok /\ last'.res.err = "AlreadyMemberError"
                /\ players' = players]_vars

\* C12, witness: a member of the active game has tried to join it again.
C12_Witness ==
    /\ last.op = "joinGame"
    /\ last.res.err = "AlreadyMemberError"
    /\ currentGame(last.chat) # NoGame
    /\ IsPlayer(currentGame(last.chat).id, last.user)

\* Round half to even of n / 10, n a number written in thousandths: its hundredths.
RoundHalfEven(n) ==
    LET q == n \div 10
        r == n % 10
    IN  IF r > 5 \/ (r = 5 /\ q % 2 = 1) THEN q + 1 ELSE q

\* C13: the amount start-session and request-buy-in are about to insert for a parsed
\* positive decimal is that decimal times 100, rounded half to even: 5000 for "50", 12
\* for "0.125".
C13_RoundsHalfToEven ==
    \A p \in Procs :
       /\ inv[p].pc = "startGame_insert" => inv[p].cents = RoundHalfEven(inv[p].text)
       /\ inv[p].pc = "buyIn_insert" /\ inv[p].text # EmptyText
          => inv[p].cents = RoundHalfEven(inv[p].text)

\* C14: when every invocation runs in isolation and none is in flight, a request on which
\* a vote has been stored, with A approve rows and R reject rows, is approved if
\* A >= APPROVALS_REQUIRED, else rejected if R >= APPROVALS_REQUIRED, else pending.
C14_TallyDecidesStatus ==
    Quiescent =>
       \A b \in DOMAIN buyins :
          LET A == CountDecision(b, "approve")
              R == CountDecision(b, "reject")
          IN  A + R > 0 =>
                 buyins[b].status = IF A >= APPROVALS_REQUIRED THEN "approved"
                                    ELSE IF R >= APPROVALS_REQUIRED THEN "rejected"
                                    ELSE "pending"

\* C14, witness: a reject vote handled in isolation has returned, the request has no
\* approve row and is rejected.
C14_Witness ==
    /\ Quiescent
    /\ last.op = "processApproval" /\ last.res.ok
    /\ CountDecision(last.buyinId, "approve") < APPROVALS_REQUIRED
    /\ CountDecision(last.buyinId, "reject") >= APPROVALS_REQUIRED
    /\ buyins[last.buyinId].status = "rejected"

\* C15: vote rows are inserted only while the request is pending: a step that changes the
\* vote rows of a request finds the request pending, so the rows of a request that is
\* approved or rejected no longer change.
C15_VotesOnlyWhilePending ==
    [][\A b \in DOMAIN buyins :
          buyins[b].status # "pending"
          => {i \in DOMAIN approvals' : approvals'[i].buyin_id = b}
                = {i \in DOMAIN approvals : approvals[i].buyin_id = b}]_vars

\* Slot p creates a status message in this step.
Creates(p) == inv[p].pc = "refreshGameMessage_sendMessage" /\ Len(msgs') > Len(msgs)

\* C16: the publish state machine of a session.  A status message is created only by a
\* publish that allows creation, and only when the session has no status_message_id or
\* the publish has tried to edit and the edit has failed; the identifier of the created
\* message is then stored as the session's status_message_id; and the refresh intent,
\* which disallows creation, creates no message and leaves every status_message_id alone.
C16_PublishStateMachine ==
    [][\A p \in Procs :
          /\ Creates(p)
             => /\ inv[p].allowCreate
                /\ \/ games[inv[p].game.id].status_message_id = 0
                   \/ inv[p].game.status_message_id # 0
          /\ inv[p].pc = "refreshGameMessage_update" /\ Returns(p)
             => /\ games'[inv[p].game.id].status_message_id = inv[p].message_id
                /\ msgs[inv[p].message_id].game_id = inv[p].game.id
          /\ inv[p].op = "refresh" /\ inv'[p] # inv[p]
             => /\ Len(msgs') = Len(msgs)
                /\ \A g \in DOMAIN games :
                      games'[g].status_message_id = games[g].status_message_id]_vars

\* C17: joins of one user that run concurrently leave one players row for the user, and
\* each of them returns ok or AlreadyMemberError (NotFoundError when the chat has no
\* active game): no join ends in an exception of the store that nobody handles.
C17_ConcurrentJoinsHandled ==
    /\ \A g \in DOMAIN games, u \in Users : PlayerRowsOf(g, u) <= 1
    /\ last.op = "joinGame"
       => \/ last.res.ok
          \/ last.res.err \in {"AlreadyMemberError", "NotFoundError"}

\* C18: every buyins row is inserted with status pending, has a positive amount and a
\* requester who has a players row of the row's game; a buy-in given no amount text takes
\* the game's buy_in_cents as its amount, and returns ValidationError, inserting nothing,
\* when that is zero.
C18_BuyInRows ==
    [][/\ \A b \in DOMAIN buyins' :
             /\ buyins'[b].amount_cents > 0
             /\ \E i \in DOMAIN players' :
                   /\ players'[i].game_id = buyins'[b].game_id
                   /\ players'[i].user_id = buyins'[b].user_id
             /\ b \notin DOMAIN buyins => buyins'[b].status = "pending"
       /\ \A p \in Procs :
             /\ /\ inv[p].pc = "buyIn_insert" /\ inv'[p].pc # "buyIn_insert"
                /\ inv[p].text = EmptyText
                => buyins'[Len(buyins')].amount_cents = games[inv[p].game.id].buy_in_cents
             /\ /\ inv[p].pc = "buyIn_isPlayer" /\ inv'[p].pc # "buyIn_isPlayer"
                /\ inv[p].text = EmptyText
                /\ IsPlayer(inv[p].game.id, inv[p].user)
                /\ games[inv[p].game.id].buy_in_cents = 0
                => /\ Returns(p)
                   /\ ~last'.res.ok /\ last'.res.err = "ValidationError"
                   /\ buyins' = buyins]_vars

\* C18, witness: a member's buy-in without amount text has failed with ValidationError in
\* a game whose buy_in_cents is zero ("/startgame 0.001").
C18_Witness ==
    /\ last.op = "buyIn"
    /\ last.text = EmptyText
    /\ last.res.err = "ValidationError"
    /\ \E g \in DOMAIN games :
          /\ games[g].chat_id = last.chat
          /\ games[g].buy_in_cents = 0
          /\ IsPlayer(g, last.user)

\* The requests of user u in game g that have status st, and the sum of their amounts.
RequestsOf(g, u, st) ==
    {b \in DOMAIN buyins :
        buyins[b].game_id = g /\ buyins[b].user_id = u /\ buyins[b].status = st}

RECURSIVE TotalOf(_)
TotalOf(S) ==
    IF S = {} THEN 0
    ELSE LET b == CHOOSE x \in S : TRUE IN buyins[b].amount_cents + TotalOf(S \ {b})

\* C19: the projection reads only and is a function of the rows of the store.  For every
\* member, approved_cents is the sum of the amounts of the member's approved requests of
\* the game and pending_count the number of the member's pending ones; the two SELECTs
\* write nothing; inserting a pending request changes no approved_cents and raises the
\* requester's pending_count by one; a request of amount x that goes from pending to
\* approved raises its requester's approved_cents by x and lowers the pending_count by
\* one.  (Being operators of the store alone, two projections of one store are equal.)
C19_ProjectionFromStore ==
    [][/\ \A g \in DOMAIN games, u \in Users :
             IsPlayer(g, u)
             => /\ approved_cents(g, u) = TotalOf(RequestsOf(g, u, "approved"))
                /\ pending_count(g, u) = Cardinality(RequestsOf(g, u, "pending"))
       /\ \A p \in Procs :
             /\ inv[p].pc \in {"composeGameState_players", "composeGameState_pending"}
             /\ inv'[p] # inv[p]
             => store' = store
       /\ \A p \in Procs :
             inv[p].pc = "buyIn_insert" /\ inv'[p].pc # "buyIn_insert"
             => \A g \in DOMAIN games, u \in Users :
                   /\ approved_cents(g, u)' = approved_cents(g, u)
                   /\ pending_count(g, u)' =
                         pending_count(g, u)
                         + (IF g = inv[p].game.id /\ u = inv[p].user THEN 1 ELSE 0)
       /\ \A b \in DOMAIN buyins :
             buyins[b].status = "pending" /\ buyins'[b].status = "approved"
             => LET g == buyins[b].game_id
                    u == buyins[b].user_id
                IN  /\ approved_cents(g, u)' = approved_cents(g, u) + buyins[b].amount_cents
                    /\ pending_count(g, u)' = pending_count(g, u) - 1]_vars

\* C19, witness: a vote has approved a request, and the requester's approved_cents is the
\* amount of that request, the pending_count zero.
C19_Witness ==
    /\ last.op = "processApproval" /\ last.res.ok /\ last.res.changed
    /\ LET b == last.buyinId IN
          /\ buyins[b].status = "approved"
          /\ approved_cents(buyins[b].game_id, buyins[b].user_id) = buyins[b].amount_cents
          /\ buyins[b].amount_cents > 0
          /\ pending_count(buyins[b].game_id, buyins[b].user_id) = 0

\* C20: a request whose status is approved has at least APPROVALS_REQUIRED approve rows,
\* and one whose status is rejected has at least APPROVALS_REQUIRED reject rows.
C20_StatusHasItsVotes ==
    \A b \in DOMAIN buyins :
       /\ buyins[b].status = "approved" => CountDecision(b, "approve") >= APPROVALS_REQUIRED
       /\ buyins[b].status = "rejected" => CountDecision(b, "reject") >= APPROVALS_REQUIRED

\* C20, witness: votes of two voters have interleaved on a request, which holds an approve
\* row and a reject row and is resolved.
C20_Witness ==
    \E b \in DOMAIN buyins :
       /\ buyins[b].status \in {"approved", "rejected"}
       /\ CountDecision(b, "approve") >= APPROVALS_REQUIRED
       /\ CountDecision(b, "reject") >= APPROVALS_REQUIRED

\* User u has a players row of game g.
OnRoster(g, u) == \E i \in DOMAIN players : players[i] = [game_id |-> g, user_id |-> u]

\* C21: a vote does not ask whether the game of the request is active.  With invocations
\* handled one at a time, a vote that has just returned an error was refused for one of
\* four reasons, none of them the status of the game: the request does not exist, it is
\* resolved, the voter is its requester, or the voter has no players row of its game;
\* and a vote that has just returned ok has its row stored and the request resolved by the
\* threshold rule, in an ended game as in an active one.
C21_VoteIgnoresSessionStatus ==
    Quiescent /\ last.op = "processApproval"
    => LET b == last.buyinId
           u == last.user
       IN  IF last.res.ok
           THEN /\ VoteRows(b, u) # {}
                /\ buyins[b].status =
                      IF CountDecision(b, "approve") >= APPROVALS_REQUIRED THEN "approved"
                      ELSE IF CountDecision(b, "reject") >= APPROVALS_REQUIRED THEN "rejected"
                      ELSE "pending"
           ELSE \/ last.res.err = "NotFoundError" /\ b \notin DOMAIN buyins
                \/ /\ last.res.err = "AlreadyResolvedError"
                   /\ b \in DOMAIN buyins /\ buyins[b].status # "pending"
                \/ /\ last.res.err = "SelfVoteError"
                   /\ b \in DOMAIN buyins /\ buyins[b].user_id = u
                \/ /\ last.res.err = "NotMemberError"
                   /\ b \in DOMAIN buyins /\ ~OnRoster(buyins[b].game_id, u)

\* C21, witness: the game was ended, then a member other than the requester has voted
\* approve on its pending request: the request is approved and the requester's
\* approved_cents in the ended game is the amount of the request.
C21_Witness ==
    /\ Quiescent
    /\ last.op = "processApproval" /\ last.res.ok /\ last.res.changed
    /\ LET b == last.buyinId IN
          /\ games[buyins[b].game_id].status = "ended"
          /\ buyins[b].status = "approved"
          /\ buyins[b].amount_cents > 0
          /\ approved_cents(buyins[b].game_id, buyins[b].user_id) = buyins[b].amount_cents

\* C22: a players row or a buyins row is inserted only for a game whose status is active
\* in the store at the moment of the insert.
C22_NoInsertIntoEndedSession ==
    [][/\ Len(players') > Len(players)
          => games[players'[Len(players')].game_id].status = "active"
       /\ Len(buyins') > Len(buyins)
          => games[buyins'[Len(buyins')].game_id].status = "active"]_vars

====
